---- MODULE Spec2Model ----
(***************************************************************************)
(* Timetable draft/publish lifecycle and conflict check of the timetable   *)
(* views (src/HMS/views.py).  The Timetable table is the shared state; a   *)
(* request handler is one action, or one action per statement where        *)
(* requests run concurrently.  TimetableGenerationService (services.py),   *)
(* the Timetable and ClassGroupSchedule models and the serializer are not  *)
(* part of the source tree; the operators that stand for them follow the   *)
(* specification's description of them.                                    *)
(***************************************************************************)
EXTENDS Integers, Sequences, FiniteSets, TLC

VARIABLES entries, nextId, prev, resp, schedules, procs

vars == <<entries, nextId, prev, resp, schedules, procs>>

\* ------------------------------------------------------------------ bounds
\* Rows the Timetable table ever holds (ids are never reused).
MaxEntries == 2
\* Items of one bulk_create request.
MaxItems == 1
\* Enrollments of the largest scope a generation run places.
MaxScope == 12
\* Background jobs enqueued in one behaviour.
MaxJobs == 1

\* ------------------------------------------------------------- static data
\* `if not version` treats a missing key, None and '' alike.
NoVersion == ""
Versions == {"v1", "v2"}

\* data.get('id') of a request without an id.
NoId == 0

Days == {"monday", "tuesday"}

\* Enrollment rows (courseManager.Enrollment): trainer and class group.
Enrollment ==
    [e \in {1, 2, 3} |->
        CASE e = 1 -> [trainer |-> 1, class_group |-> 1]
          [] e = 2 -> [trainer |-> 2, class_group |-> 1]
          [] e = 3 -> [trainer |-> 1, class_group |-> 2]]

\* Placements a client submits: times are minutes after midnight.
Placements ==
    { [day_of_week |-> "monday", start_time |-> 540, end_time |-> 600,
       room |-> 1, course_enrollment |-> 1],
      [day_of_week |-> "monday", start_time |-> 600, end_time |-> 660,
       room |-> 1, course_enrollment |-> 2],
      [day_of_week |-> "monday", start_time |-> 540, end_time |-> 630,
       room |-> 2, course_enrollment |-> 3],
      [day_of_week |-> "tuesday", start_time |-> 540, end_time |-> 600,
       room |-> 1, course_enrollment |-> 1] }

\* The placements bulk_create requests carry: two that overlap on monday and
\* share a trainer.
ItemPlacements == {p \in Placements : p.day_of_week = "monday" /\ p.start_time = 540}

\* request.user: authenticated users by is_staff and role.
Users ==
    { [is_staff |-> TRUE, role |-> "admin"],
      [is_staff |-> FALSE, role |-> "hod"],
      [is_staff |-> FALSE, role |-> "trainee"] }

\* A bulk_create item: a full entry payload, or one the serializer rejects.
InvalidItem == [draft_version |-> "v1", day_of_week |-> "monday"]

\* The payloads of version v1 carry the room-1 placement and those of v2 the
\* room-2 placement, so the entries of the two versions overlap and share a
\* trainer, and belong to different class groups.
Items ==
    { [draft_version |-> vp[1], day_of_week |-> vp[2].day_of_week,
       start_time |-> vp[2].start_time, end_time |-> vp[2].end_time,
       room |-> vp[2].room, course_enrollment |-> vp[2].course_enrollment]
        : vp \in {x \in Versions \X ItemPlacements : (x[1] = "v1") = (x[2].room = 1)} }
    \cup {InvalidItem}

ItemLists == UNION { [1..n -> Items] : n \in 0..MaxItems }

\* --------------------------------------------------------- table helpers
VersionIds(es, v) == {i \in DOMAIN es : es[i].draft_version = v}

PublishedIds(es) == {i \in DOMAIN es : ~es[i].is_draft}

DraftIds(es) == {i \in DOMAIN es : es[i].is_draft}

\* QuerySet.update(is_draft=flag) on the rows S.
UpdateIsDraft(es, S, flag) ==
    [i \in DOMAIN es |-> IF i \in S THEN [es[i] EXCEPT !.is_draft = flag] ELSE es[i]]

\* QuerySet.delete() on the rows S.
DeleteRows(es, S) == [i \in DOMAIN es \ S |-> es[i]]

\* Model.objects.create: a new row under a fresh id.
InsertRow(es, id, row) ==
    [i \in DOMAIN es \cup {id} |-> IF i = id THEN row ELSE es[i]]

ActiveVersions(es) == {es[i].draft_version : i \in PublishedIds(es)}

\* `not request.user.is_staff and request.user.role not in ['hod', 'dp_academics']`
PermissionDenied(u) == ~u.is_staff /\ u.role \notin {"hod", "dp_academics"}

\* ------------------------------------------- TimetableGenerationService
\* get_draft_version_status(draft_version): counts of one version.
get_draft_version_status(es, v) ==
    [total_entries |-> Cardinality(VersionIds(es, v)),
     draft_entries |-> Cardinality(VersionIds(es, v) \cap DraftIds(es)),
     published_entries |-> Cardinality(VersionIds(es, v) \cap PublishedIds(es)),
     is_active |-> VersionIds(es, v) \cap PublishedIds(es) # {},
     active_version |-> ActiveVersions(es)]

\* publish_draft_timetable(draft_version): records the other versions that have
\* published entries, flips those back to draft and flips every entry of the
\* version to published; zero counts and no change when the version has no entry.
publish_draft_timetable(es, v) ==
    LET mine == VersionIds(es, v)
        others == PublishedIds(es) \ mine
    IN  IF mine = {}
        THEN [entries |-> es,
              result |-> [published_count |-> 0, previously_active_count |-> 0,
                          previously_active_versions |-> {}]]
        ELSE [entries |-> UpdateIsDraft(UpdateIsDraft(es, others, TRUE), mine, FALSE),
              result |-> [published_count |-> Cardinality(mine),
                          previously_active_count |-> Cardinality(others),
                          previously_active_versions |-> {es[i].draft_version : i \in others}]]

\* discard_draft_timetable(draft_version): deletes the version's draft rows only.
discard_draft_timetable(es, v) ==
    LET gone == VersionIds(es, v) \cap DraftIds(es)
        left == DeleteRows(es, gone)
    IN  [entries |-> left,
         result |-> [discarded_count |-> Cardinality(gone),
                     published_entries_remaining |->
                         Cardinality(VersionIds(es, v) \cap PublishedIds(es)),
                     is_active |-> VersionIds(es, v) \cap PublishedIds(es) # {},
                     post_status |-> get_draft_version_status(left, v)]]

\* ------------------------------------------------------ TimetableViewSet
\* The class groups a trainee belongs to, the trainer id of a trainer user.
TraineeGroups == {1}
TrainerOf == 1

\* Mutant: the hod branch loses its is_draft=False filter.
get_queryset_hod_sees_drafts(u, es) ==
    CASE u.role = "trainee" ->
            {i \in PublishedIds(es) :
                Enrollment[es[i].course_enrollment].class_group \in TraineeGroups}
      [] u.role = "trainer" ->
            {i \in PublishedIds(es) :
                Enrollment[es[i].course_enrollment].trainer = TrainerOf}
      [] u.role = "dp_academics" -> PublishedIds(es)
      [] OTHER -> DOMAIN es

\* get_queryset: the rows a user's role lets the generic views reach.
get_queryset(u, es) ==
    CASE u.role = "trainee" ->
            {i \in PublishedIds(es) :
                Enrollment[es[i].course_enrollment].class_group \in TraineeGroups}
      [] u.role = "trainer" ->
            {i \in PublishedIds(es) :
                Enrollment[es[i].course_enrollment].trainer = TrainerOf}
      [] u.role = "hod" -> PublishedIds(es)
      [] u.role = "dp_academics" -> PublishedIds(es)
      [] OTHER -> DOMAIN es

Response(op, u, version, pk, status, data) ==
    [op |-> op, user |-> u, version |-> version, pk |-> pk, status |-> status,
     data |-> data, repeat |-> FALSE, rebuilt |-> {}]

\* serializer.is_valid(): every required field of the entry is present.
serializer_is_valid(item) ==
    DOMAIN item = {"draft_version", "day_of_week", "start_time", "end_time",
                   "room", "course_enrollment"}

\* serializer.save(): the row stored for a valid item; new rows are drafts.
serializer_save(item) ==
    [draft_version |-> item.draft_version, is_draft |-> TRUE,
     day_of_week |-> item.day_of_week, start_time |-> item.start_time,
     end_time |-> item.end_time, room |-> item.room,
     course_enrollment |-> item.course_enrollment]

\* The loop of bulk_create: each valid item is saved as it is met, each invalid
\* one is recorded in errors.
RECURSIVE bulk_create_loop(_, _, _, _)
bulk_create_loop(es, nid, items, acc) ==
    IF items = <<>> THEN [entries |-> es, nextId |-> nid, created |-> acc.created,
                          errors |-> acc.errors]
    ELSE IF serializer_is_valid(Head(items))
         THEN bulk_create_loop(InsertRow(es, nid, serializer_save(Head(items))), nid + 1,
                               Tail(items),
                               [acc EXCEPT !.created = Append(@, nid)])
         ELSE bulk_create_loop(es, nid, Tail(items),
                               [acc EXCEPT !.errors = @ + 1])

ValidCount(items) == Cardinality({k \in DOMAIN items : serializer_is_valid(items[k])})

Bodies ==
    {[is_list |-> TRUE, items |-> l] : l \in ItemLists}
        \cup {[is_list |-> FALSE, items |-> <<>>]}

bulk_create(u, body) ==
    /\ nextId + ValidCount(body.items) - 1 <= MaxEntries
    /\ prev' = entries
    /\ UNCHANGED <<schedules, procs>>
    /\ IF PermissionDenied(u)
       THEN /\ UNCHANGED <<entries, nextId>>
            /\ resp' = Response("bulk_create", u, NoVersion, NoId, 403,
                                [detail |-> "Permission denied."])
       ELSE IF ~body.is_list
       THEN /\ UNCHANGED <<entries, nextId>>
            /\ resp' = Response("bulk_create", u, NoVersion, NoId, 400,
                                [detail |-> "Expected a list of timetable entries."])
       ELSE LET out == bulk_create_loop(entries, nextId, body.items,
                                        [created |-> <<>>, errors |-> 0])
            IN  /\ entries' = out.entries
                /\ nextId' = out.nextId
                /\ resp' = Response("bulk_create", u, NoVersion, NoId,
                                    IF out.errors = 0 THEN 201 ELSE 400,
                                    [created |-> out.created, errors |-> out.errors])

\* publish (detail route): one entry by primary key.
publish(u, pk) ==
    /\ prev' = entries
    /\ UNCHANGED <<schedules, procs>>
    /\ UNCHANGED nextId
    /\ IF pk \notin get_queryset(u, entries)
       THEN /\ UNCHANGED entries
            /\ resp' = Response("publish", u, NoVersion, pk, 404, [detail |-> "Not found."])
       ELSE IF ~entries[pk].is_draft
       THEN /\ UNCHANGED entries
            /\ resp' = Response("publish", u, NoVersion, pk, 400,
                                [detail |-> "This timetable entry is already published."])
       ELSE /\ entries' = UpdateIsDraft(entries, {pk}, FALSE)
            /\ resp' = Response("publish", u, NoVersion, pk, 200, [id |-> pk, is_draft |-> FALSE])

\* Mutant: the filter loses its draft_version condition.
revert_to_draft_rows_any_version(es, v) == PublishedIds(es)

\* revert_to_draft: the rows updated by the filter(draft_version, is_draft=False).
revert_to_draft_rows(es, v) == VersionIds(es, v) \cap PublishedIds(es)

revert_to_draft(u, pk) ==
    /\ prev' = entries
    /\ UNCHANGED <<schedules, procs>>
    /\ UNCHANGED nextId
    /\ IF PermissionDenied(u)
       THEN /\ UNCHANGED entries
            /\ resp' = Response("revert_to_draft", u, pk, NoId, 403,
                                [detail |-> "Permission denied."])
       ELSE IF pk = NoVersion
       THEN /\ UNCHANGED entries
            /\ resp' = Response("revert_to_draft", u, pk, NoId, 400,
                                [detail |-> "No version number provided."])
       ELSE LET rows == revert_to_draft_rows(entries, pk)
                updated_count == Cardinality(rows)
            IN  /\ entries' = UpdateIsDraft(entries, rows, TRUE)
                /\ resp' = IF updated_count = 0
                           THEN Response("revert_to_draft", u, pk, NoId, 404,
                                         [detail |-> "No published entries found"])
                           ELSE Response("revert_to_draft", u, pk, NoId, 200,
                                         [updated_count |-> updated_count,
                                          draft_version |-> pk])

\* The class group of an entry, through its course enrollment.
class_group_of(e) == Enrollment[e.course_enrollment].class_group

\* ClassGroupSchedule.update_or_create_schedule: the schedule of a class group is
\* replaced by that group's published entries as the table holds them now.
ScheduleRows(es, g) ==
    {[id |-> i, day_of_week |-> es[i].day_of_week, start_time |-> es[i].start_time,
      end_time |-> es[i].end_time, room |-> es[i].room,
      course_enrollment |-> es[i].course_enrollment]
        : i \in {j \in PublishedIds(es) : class_group_of(es[j]) = g}}

\* publish_draft, after the writes: the class groups of the version's published
\* entries.
published_class_groups(es, v) ==
    {class_group_of(es[i]) : i \in VersionIds(es, v) \cap PublishedIds(es)}

\* publish_draft, after the writes: the schedule of each collected class group is
\* rebuilt; the other schedules are left as they are.
update_class_group_schedules(es, scheds, class_groups) ==
    [g \in DOMAIN scheds \cup class_groups |->
        IF g \in class_groups THEN ScheduleRows(es, g) ELSE scheds[g]]

\* Mutant: the deactivation writes the wrong flag on the wrong rows.
deactivate_active_versions_inverted(es) == UpdateIsDraft(es, DraftIds(es), FALSE)

\* publish_draft, the writes: every published row is set back to draft, then the
\* service publishes the version.
deactivate_active_versions(es) == UpdateIsDraft(es, PublishedIds(es), TRUE)

\* Mutant: the deactivation runs after the service has published.
publish_draft_writes_swapped(es, v) ==
    LET out == publish_draft_timetable(es, v)
    IN  [entries |-> UpdateIsDraft(out.entries, PublishedIds(out.entries), TRUE),
         result |-> out.result]

publish_draft_writes(es, v) == publish_draft_timetable(deactivate_active_versions(es), v)

\* Mutant: published_count is read from the wrong key of the result.
publish_draft_response_wrong_count(result) ==
    IF result.published_count = 0
    THEN [status |-> 404, data |-> [detail |-> "No draft entries found"]]
    ELSE [status |-> 200, data |-> [published_count |-> result.previously_active_count]]

\* publish_draft, the response built from the service's result.
publish_draft_response(result) ==
    IF result.published_count = 0
    THEN [status |-> 404, data |-> [detail |-> "No draft entries found"]]
    ELSE [status |-> 200,
          data |-> IF result.previously_active_count > 0
                   THEN [published_count |-> result.published_count,
                         previously_active_count |-> result.previously_active_count,
                         previously_active_versions |-> result.previously_active_versions]
                   ELSE [published_count |-> result.published_count]]

publish_draft(u, version) ==
    /\ prev' = entries
    /\ UNCHANGED <<nextId, procs>>
    /\ IF version = NoVersion
       THEN /\ UNCHANGED <<entries, schedules>>
            /\ resp' = Response("publish_draft", u, version, NoId, 400,
                                [detail |-> "No draft version specified"])
       ELSE LET out == publish_draft_writes(entries, version)
                r == publish_draft_response(out.result)
                class_groups == IF r.status = 200
                                THEN published_class_groups(out.entries, version)
                                ELSE {}
            IN  /\ entries' = out.entries
                /\ schedules' = update_class_group_schedules(out.entries, schedules,
                                                             class_groups)
                /\ resp' = [Response("publish_draft", u, version, NoId, r.status, r.data)
                              EXCEPT !.repeat = /\ resp.op = "publish_draft"
                                                /\ resp.status = 200
                                                /\ resp.version = version,
                                     !.rebuilt = class_groups]

\* Mutant: the two counts of the response are taken from each other's key.
discard_draft_response_swapped(result) ==
    IF result.discarded_count = 0
    THEN [status |-> 404, data |-> [detail |-> "No draft entries found"]]
    ELSE [status |-> 200,
          data |-> [discarded_count |-> result.published_entries_remaining,
                    published_entries_remaining |-> result.discarded_count,
                    is_active |-> result.is_active,
                    version_status |-> result.post_status]]

\* discard_draft, the response built from the service's result.
discard_draft_response(result) ==
    IF result.discarded_count = 0
    THEN [status |-> 404, data |-> [detail |-> "No draft entries found"]]
    ELSE [status |-> 200,
          data |-> [discarded_count |-> result.discarded_count,
                    published_entries_remaining |-> result.published_entries_remaining,
                    is_active |-> result.is_active,
                    version_status |-> result.post_status]]

discard_draft(u, version) ==
    /\ prev' = entries
    /\ UNCHANGED <<schedules, procs>>
    /\ UNCHANGED nextId
    /\ IF version = NoVersion
       THEN /\ UNCHANGED entries
            /\ resp' = Response("discard_draft", u, version, NoId, 400,
                                [detail |-> "No draft version specified"])
       ELSE LET out == discard_draft_timetable(entries, version)
                r == discard_draft_response(out.result)
            IN  /\ entries' = out.entries
                /\ resp' = Response("discard_draft", u, version, NoId, r.status, r.data)

\* ------------------------------------------------------------ lifecycle
NoResponse == Response("none", [is_staff |-> FALSE, role |-> "none"], NoVersion, NoId, 0,
                       [detail |-> ""])

Init ==
    /\ entries = <<>>
    /\ nextId = 1
    /\ prev = <<>>
    /\ resp = NoResponse
    /\ schedules = <<>>
    /\ procs = <<>>

Next ==
    \/ \E u \in Users, body \in Bodies : bulk_create(u, body)
    \/ \E u \in Users, pk \in 1..MaxEntries : publish(u, pk)
    \/ \E u \in Users, v \in Versions \cup {NoVersion} : revert_to_draft(u, v)
    \/ \E u \in Users, v \in Versions \cup {NoVersion} : publish_draft(u, v)
    \/ \E u \in Users, v \in Versions \cup {NoVersion} : discard_draft(u, v)

Spec == Init /\ [][Next]_vars

\* ------------------------------------------- generic entry operations
\* TimetableViewSet is a ModelViewSet whose only permission class is
\* IsAuthenticated, so PUT/PATCH and DELETE on one entry are exposed to every
\* user for the rows of get_queryset.

\* The payload of a PATCH request: another room.
Patches == {[room |-> 2]}

\* serializer.save() on an existing row: the fields of the payload replace the
\* row's.
serializer_update(row, patch) ==
    [draft_version |-> row.draft_version, is_draft |-> row.is_draft,
     day_of_week |-> IF "day_of_week" \in DOMAIN patch THEN patch.day_of_week
                     ELSE row.day_of_week,
     start_time |-> row.start_time, end_time |-> row.end_time,
     room |-> IF "room" \in DOMAIN patch THEN patch.room ELSE row.room,
     course_enrollment |-> row.course_enrollment]

\* partial_update (detail route): get_object() on the user's queryset, then the
\* serializer saves the payload on the row.
partial_update(u, pk, patch) ==
    /\ prev' = entries
    /\ UNCHANGED <<nextId, schedules, procs>>
    /\ IF pk \notin get_queryset(u, entries)
       THEN /\ UNCHANGED entries
            /\ resp' = Response("partial_update", u, NoVersion, pk, 404,
                                [detail |-> "Not found."])
       ELSE /\ entries' = [entries EXCEPT ![pk] = serializer_update(entries[pk], patch)]
            /\ resp' = Response("partial_update", u, NoVersion, pk, 200,
                                [detail |-> "updated"])

\* destroy (detail route): get_object() on the user's queryset, then the row is
\* deleted.
destroy(u, pk) ==
    /\ prev' = entries
    /\ UNCHANGED <<nextId, schedules, procs>>
    /\ IF pk \notin get_queryset(u, entries)
       THEN /\ UNCHANGED entries
            /\ resp' = Response("destroy", u, NoVersion, pk, 404, [detail |-> "Not found."])
       ELSE /\ entries' = DeleteRows(entries, {pk})
            /\ resp' = Response("destroy", u, NoVersion, pk, 204, [detail |-> ""])

NextEntries ==
    \/ Next
    \/ \E u \in Users, pk \in 1..MaxEntries, patch \in Patches : partial_update(u, pk, patch)
    \/ \E u \in Users, pk \in 1..MaxEntries : destroy(u, pk)

SpecEntries == Init /\ [][NextEntries]_vars

\* -------------------------------------------------------- read paths
\* The users that read: the three above, a trainer and a dp_academics user.
Readers ==
    Users \cup { [is_staff |-> FALSE, role |-> "trainer"],
                 [is_staff |-> FALSE, role |-> "dp_academics"] }

\* start_date and end_date of a request, as the week days of the dates they
\* span, or as text that strptime rejects.
DateRanges ==
    { [valid |-> FALSE, days |-> {}],
      [valid |-> TRUE, days |-> {"monday"}],
      [valid |-> TRUE, days |-> Days] }

\* The rows a table may hold when it is read: any placement, draft or published.
ReadRows ==
    { [draft_version |-> "v1", is_draft |-> b, day_of_week |-> p.day_of_week,
       start_time |-> p.start_time, end_time |-> p.end_time, room |-> p.room,
       course_enrollment |-> p.course_enrollment]
        : b \in BOOLEAN, p \in Placements }

\* list: the user's queryset.
list(u) ==
    /\ prev' = entries
    /\ UNCHANGED <<entries, nextId, schedules, procs>>
    /\ resp' = Response("list", u, NoVersion, NoId, 200,
                        [ids |-> get_queryset(u, entries)])

\* retrieve (detail route): get_object() on the user's queryset.
retrieve(u, pk) ==
    /\ prev' = entries
    /\ UNCHANGED <<entries, nextId, schedules, procs>>
    /\ resp' = IF pk \in get_queryset(u, entries)
               THEN Response("retrieve", u, NoVersion, pk, 200, [ids |-> {pk}])
               ELSE Response("retrieve", u, NoVersion, pk, 404, [ids |-> {}])

\* my_schedule, the entries query of each role.
my_schedule_entries(u, es) ==
    IF u.role = "trainee"
    THEN {i \in PublishedIds(es) : class_group_of(es[i]) \in TraineeGroups}
    ELSE {i \in PublishedIds(es) : Enrollment[es[i].course_enrollment].trainer = TrainerOf}

\* my_schedule: the dates are parsed first, then the role decides between the
\* two queries and 403; the sessions are the entries on the days of the range.
my_schedule(u, range) ==
    /\ prev' = entries
    /\ UNCHANGED <<entries, nextId, schedules, procs>>
    /\ resp' = IF ~range.valid
               THEN Response("my_schedule", u, NoVersion, NoId, 400, [ids |-> {}])
               ELSE IF u.role \notin {"trainee", "trainer"}
               THEN Response("my_schedule", u, NoVersion, NoId, 403, [ids |-> {}])
               ELSE Response("my_schedule", u, NoVersion, NoId, 200,
                             [ids |-> {i \in my_schedule_entries(u, entries) :
                                         entries[i].day_of_week \in range.days}])

\* RoomViewSet.availability: the bookings of a room are its published entries on
\* the days of the range.
availability(u, room, range) ==
    /\ prev' = entries
    /\ UNCHANGED <<entries, nextId, schedules, procs>>
    /\ resp' = IF ~range.valid
               THEN Response("availability", u, NoVersion, room, 400, [ids |-> {}])
               ELSE Response("availability", u, NoVersion, room, 200,
                             [ids |-> {i \in PublishedIds(entries) :
                                         /\ entries[i].room = room
                                         /\ entries[i].day_of_week \in range.days}])

InitReads ==
    /\ entries \in UNION { [S -> ReadRows] : S \in SUBSET (1..MaxEntries) }
    /\ nextId = MaxEntries + 1
    /\ prev = entries
    /\ resp = NoResponse
    /\ schedules = <<>>
    /\ procs = <<>>

NextReads ==
    \/ \E u \in Readers : list(u)
    \/ \E u \in Readers, pk \in 1..MaxEntries : retrieve(u, pk)
    \/ \E u \in Readers, range \in DateRanges : my_schedule(u, range)
    \/ \E u \in Readers, room \in {p.room : p \in Placements}, range \in DateRanges :
          availability(u, room, range)

SpecReads == InitReads /\ [][NextReads]_vars

\* ------------------------------------------------- bulk_create batches
\* Requests of bulk_create with two items, valid or not, next to the shorter
\* ones.
BulkBodies ==
    Bodies \cup {[is_list |-> TRUE, items |-> <<x, y>>] : x \in Items, y \in Items}

NextBulk ==
    \/ Next
    \/ \E u \in Users, body \in BulkBodies \ Bodies : bulk_create(u, body)

SpecBulk == Init /\ [][NextBulk]_vars

\* --------------------------------------------------- concurrent requests
\* Requests are served by a pool of workers and the handlers open no transaction
\* and take no lock, so the statements of handlers that run at the same time
\* interleave.  A request in flight is a record of procs: its handler, its
\* version, the statement it is at (pc), its response status, the class groups
\* it has collected, and whether it deleted rows while a publish_draft of its
\* version was between its two writes (mid_flip).
Request(op, v, pc) ==
    [op |-> op, version |-> v, pc |-> pc, status |-> 0, class_groups |-> {},
     mid_flip |-> FALSE]

AtPc(p, op, pc) == p \in DOMAIN procs /\ procs[p].op = op /\ procs[p].pc = pc

\* publish_draft, first write: filter(is_draft=False).update(is_draft=True).
publish_draft_deactivate(p) ==
    /\ AtPc(p, "publish_draft", "deactivate")
    /\ entries' = deactivate_active_versions(entries)
    /\ procs' = [procs EXCEPT ![p].pc = "service"]
    /\ UNCHANGED <<nextId, prev, resp, schedules>>

\* Mutant: the deactivation statement also runs after the service call.
publish_draft_service_then_deactivate(p) ==
    /\ AtPc(p, "publish_draft", "service")
    /\ LET out == publish_draft_timetable(entries, procs[p].version)
           r == publish_draft_response(out.result)
       IN  /\ entries' = deactivate_active_versions(out.entries)
           /\ procs' = [procs EXCEPT ![p].status = r.status,
                                     ![p].pc = IF r.status = 200 THEN "collect"
                                               ELSE "done"]
    /\ UNCHANGED <<nextId, prev, resp, schedules>>

\* publish_draft, second write: the service call, whose result decides between
\* the 404 response and the schedule update.
publish_draft_service(p) ==
    /\ AtPc(p, "publish_draft", "service")
    /\ LET out == publish_draft_timetable(entries, procs[p].version)
           r == publish_draft_response(out.result)
       IN  /\ entries' = out.entries
           /\ procs' = [procs EXCEPT ![p].status = r.status,
                                     ![p].pc = IF r.status = 200 THEN "collect"
                                               ELSE "done"]
    /\ UNCHANGED <<nextId, prev, resp, schedules>>

\* publish_draft, the query of the version's published entries.
publish_draft_collect(p) ==
    /\ AtPc(p, "publish_draft", "collect")
    /\ procs' = [procs EXCEPT
                    ![p].class_groups = published_class_groups(entries, procs[p].version),
                    ![p].pc = "rebuild"]
    /\ UNCHANGED <<entries, nextId, prev, resp, schedules>>

\* publish_draft, the schedule update of the collected class groups.
publish_draft_rebuild(p) ==
    /\ AtPc(p, "publish_draft", "rebuild")
    /\ schedules' = update_class_group_schedules(entries, schedules, procs[p].class_groups)
    /\ procs' = [procs EXCEPT ![p].pc = "done"]
    /\ UNCHANGED <<entries, nextId, prev, resp>>

\* discard_draft, the service call.
discard_draft_service(p) ==
    /\ AtPc(p, "discard_draft", "service")
    /\ LET out == discard_draft_timetable(entries, procs[p].version)
           r == discard_draft_response(out.result)
       IN  /\ entries' = out.entries
           /\ procs' = [procs EXCEPT
                           ![p].status = r.status,
                           ![p].pc = "done",
                           ![p].mid_flip =
                               /\ out.result.discarded_count > 0
                               /\ \E q \in DOMAIN procs :
                                     /\ AtPc(q, "publish_draft", "service")
                                     /\ procs[q].version = procs[p].version]
    /\ UNCHANGED <<nextId, prev, resp, schedules>>

\* revert_to_draft, the update statement.
revert_to_draft_update(p) ==
    /\ AtPc(p, "revert_to_draft", "update")
    /\ LET rows == revert_to_draft_rows(entries, procs[p].version)
       IN  /\ entries' = UpdateIsDraft(entries, rows, TRUE)
           /\ procs' = [procs EXCEPT ![p].status = IF rows = {} THEN 404 ELSE 200,
                                     ![p].pc = "done"]
    /\ UNCHANGED <<nextId, prev, resp, schedules>>

\* The requests that run together: two publish_draft calls, or a publish_draft
\* and a discard_draft of one version, alone or with a revert_to_draft of it.
Scenarios ==
    { <<Request("publish_draft", v, "deactivate"), Request("publish_draft", w, "deactivate")>>
        : v \in Versions, w \in Versions }
    \cup
    { <<Request("publish_draft", v, "deactivate"), Request("discard_draft", v, "service"),
        Request("revert_to_draft", v, "update")>> : v \in Versions }
    \cup
    { <<Request("publish_draft", v, "deactivate"), Request("discard_draft", v, "service")>>
        : v \in Versions }

\* The tables the requests may find: entries of the two versions, draft or
\* published.
ConcurrentRows ==
    { [serializer_save(item) EXCEPT !.is_draft = b]
        : item \in Items \ {InvalidItem}, b \in BOOLEAN }

ConcurrentTables == UNION { [S -> ConcurrentRows] : S \in SUBSET (1..MaxEntries) }

InitConcurrent ==
    /\ entries \in ConcurrentTables
    /\ nextId = MaxEntries + 1
    /\ prev = entries
    /\ resp = NoResponse
    /\ schedules = <<>>
    /\ procs \in Scenarios

NextConcurrent ==
    \/ \E p \in DOMAIN procs : publish_draft_deactivate(p)
    \/ \E p \in DOMAIN procs : publish_draft_service(p)
    \/ \E p \in DOMAIN procs : publish_draft_collect(p)
    \/ \E p \in DOMAIN procs : publish_draft_rebuild(p)
    \/ \E p \in DOMAIN procs : discard_draft_service(p)
    \/ \E p \in DOMAIN procs : revert_to_draft_update(p)

SpecConcurrent == InitConcurrent /\ [][NextConcurrent]_vars

\* ------------------------------------------------------- conflict check
\* A time of a request is the text "HH:MM", held as <<HH, MM>>.
\* datetime.strptime(text, '%H:%M') raises ValueError outside 00:00..23:59.
strptime_ok(t) == t[1] \in 0..23 /\ t[2] \in 0..59

\* .time() of the parsed text, in minutes after midnight.
strptime(t) == t[1] * 60 + t[2]

ConflictKeys == {"start_time", "end_time", "day_of_week", "room", "course_enrollment"}

\* Mutant: the base query loses its is_draft=False condition.
conflicts_base_query_with_drafts(es, day, id) ==
    {i \in DOMAIN es : es[i].day_of_week = day /\ i # id}

\* filter(day_of_week=..., is_draft=False).exclude(id=data.get('id'))
conflicts_base_query(es, day, id) ==
    {i \in DOMAIN es : es[i].day_of_week = day /\ ~es[i].is_draft /\ i # id}

\* Mutant: the overlap test is closed at the boundaries.
time_overlap_closed(e, start_time, end_time) ==
    e.start_time <= end_time /\ e.end_time >= start_time

\* Q(start_time__lt=end_time) & Q(end_time__gt=start_time)
time_overlap(e, start_time, end_time) ==
    e.start_time < end_time /\ e.end_time > start_time

\* Mutant: the class-group block forgets to set the flag.
has_conflicts_flag_without_class_group(rooms, trainers, groups) ==
    rooms # {} \/ trainers # {}

\* has_conflicts starts False and is set True in the block of each bucket whose
\* query has a row.
has_conflicts_flag(rooms, trainers, groups) ==
    rooms # {} \/ trainers # {} \/ groups # {}

\* The body of the try block: the three buckets, as the ids of their rows.
conflicts_result(es, data) ==
    LET start_time == strptime(data.start_time)
        end_time == strptime(data.end_time)
        conflicts_query ==
            {i \in conflicts_base_query(es, data.day_of_week, data.id) :
                time_overlap(es[i], start_time, end_time)}
        course_enrollment == Enrollment[data.course_enrollment]
        room_conflicts == {i \in conflicts_query : es[i].room = data.room}
        trainer_conflicts ==
            {i \in conflicts_query :
                Enrollment[es[i].course_enrollment].trainer = course_enrollment.trainer}
        class_group_conflicts ==
            {i \in conflicts_query :
                Enrollment[es[i].course_enrollment].class_group
                    = course_enrollment.class_group}
    IN  [has_conflicts |-> has_conflicts_flag(room_conflicts, trainer_conflicts,
                                              class_group_conflicts),
         room_conflicts |-> room_conflicts,
         trainer_conflicts |-> trainer_conflicts,
         class_group_conflicts |-> class_group_conflicts]

\* What makes the try block raise: a missing key, a time that does not parse, an
\* enrollment that does not exist.
conflicts_raises(data) ==
    \/ ~(ConflictKeys \subseteq DOMAIN data)
    \/ ~strptime_ok(data.start_time)
    \/ ~strptime_ok(data.end_time)
    \/ data.course_enrollment \notin DOMAIN Enrollment

\* Mutant: a check that finds no conflict saves the candidate as a draft entry.
conflicts_saving_candidate(data) ==
    /\ prev' = entries
    /\ UNCHANGED <<nextId, schedules, procs>>
    /\ IF conflicts_raises(data)
       THEN /\ UNCHANGED entries
            /\ resp' = [op |-> "conflicts", request |-> data, status |-> 400,
                        data |-> [detail |-> "Error checking conflicts"]]
       ELSE LET r == conflicts_result(entries, data)
                row == [draft_version |-> "v1", is_draft |-> TRUE,
                        day_of_week |-> data.day_of_week,
                        start_time |-> strptime(data.start_time),
                        end_time |-> strptime(data.end_time), room |-> data.room,
                        course_enrollment |-> data.course_enrollment]
            IN  /\ entries' = IF r.has_conflicts THEN entries
                               ELSE InsertRow(entries, nextId, row)
                /\ resp' = [op |-> "conflicts", request |-> data, status |-> 200,
                            data |-> r]

conflicts(data) ==
    /\ prev' = entries
    /\ UNCHANGED <<schedules, procs>>
    /\ UNCHANGED <<entries, nextId>>
    /\ resp' = IF conflicts_raises(data)
               THEN [op |-> "conflicts", request |-> data, status |-> 400,
                     data |-> [detail |-> "Error checking conflicts"]]
               ELSE [op |-> "conflicts", request |-> data, status |-> 200,
                     data |-> conflicts_result(entries, data)]

\* Requests of the conflict check: well-formed ones (start before, at and after
\* end), one whose time does not parse, one without a room.
ConflictRequests ==
    { [start_time |-> s, end_time |-> e, day_of_week |-> d, room |-> r,
       course_enrollment |-> c, id |-> i]
        : s \in {<<9, 0>>, <<10, 0>>}, e \in {<<10, 0>>, <<11, 0>>}, d \in Days,
          r \in {1, 2}, c \in {1, 2, 9}, i \in {NoId, 1} }
    \cup { [start_time |-> <<24, 0>>, end_time |-> <<10, 0>>, day_of_week |-> "monday",
            room |-> 1, course_enrollment |-> 1, id |-> NoId],
           [start_time |-> <<9, 0>>, end_time |-> <<10, 0>>, day_of_week |-> "monday",
            course_enrollment |-> 1, id |-> NoId] }

\* validate_timetable_entry (TimetableGenerationViewSet): a missing required
\* field is answered 400; otherwise the view calls self.check_for_conflicts, a
\* method of TimetableViewSet that this view set does not have, and the
\* AttributeError is answered 500.
validate_timetable_entry(data) ==
    /\ prev' = entries
    /\ UNCHANGED <<entries, nextId, schedules, procs>>
    /\ resp' = IF ~(ConflictKeys \subseteq DOMAIN data)
               THEN [op |-> "validate_timetable_entry", request |-> data,
                     status |-> 400, data |-> [detail |-> "Missing required fields"]]
               ELSE [op |-> "validate_timetable_entry", request |-> data,
                     status |-> 500, data |-> [detail |-> "AttributeError"]]

\* Requests of validate_timetable_entry: the 09:00-10:00 monday candidates of
\* enrollment 1, with and without a room.
ValidateRequests ==
    {r \in ConflictRequests :
        /\ r.day_of_week = "monday" /\ r.start_time = <<9, 0>>
        /\ r.end_time = <<10, 0>> /\ r.course_enrollment = 1 /\ r.id = NoId}

\* The rows a table may hold when the check runs: any placement, draft or
\* published.
ConflictRows ==
    { [draft_version |-> "v1", is_draft |-> b, day_of_week |-> p.day_of_week,
       start_time |-> p.start_time, end_time |-> p.end_time, room |-> p.room,
       course_enrollment |-> p.course_enrollment]
        : b \in BOOLEAN, p \in Placements }

Tables == UNION { [S -> ConflictRows] : S \in SUBSET (1..MaxEntries) }

InitConflicts ==
    /\ entries \in Tables
    /\ nextId = MaxEntries + 1
    /\ prev = entries
    /\ resp = NoResponse
    /\ schedules = <<>>
    /\ procs = <<>>

NextConflicts ==
    \/ \E data \in ConflictRequests : conflicts(data)
    \/ \E data \in ValidateRequests : validate_timetable_entry(data)

SpecConflicts == InitConflicts /\ [][NextConflicts]_vars

\* ------------------------------------- TimetableGenerationService, search
\* The enrollments a run may have in scope, beyond those of Enrollment: 4 and 5
\* share a trainer who is free for one session only; those above 10 are the
\* courses of one class group, each with a trainer of its own.
ScopeEnrollment(e) ==
    IF e \in DOMAIN Enrollment THEN Enrollment[e]
    ELSE IF e \in {4, 5} THEN [trainer |-> 4, class_group |-> 5]
    ELSE [trainer |-> e, class_group |-> 3]

\* Step 1 of generate_timetable: the ordered enrollments of the class groups in
\* scope.
RECURSIVE scope_enrollments(_)
scope_enrollments(class_group_ids) ==
    IF class_group_ids = <<>> THEN <<>>
    ELSE (CASE Head(class_group_ids) = 1 -> <<1, 2>>
            [] Head(class_group_ids) = 2 -> <<3>>
            [] Head(class_group_ids) = 3 -> [k \in 1..MaxScope |-> 10 + k]
            [] Head(class_group_ids) = 5 -> <<4, 5>>
            [] OTHER -> <<>>) \o scope_enrollments(Tail(class_group_ids))

\* The length of a session, the rooms in room order, and the start times of the
\* sessions a trainer's availability has room for, earliest first (all on
\* monday).
SessionMinutes == 60

RoomOrder == <<1, 2>>

trainer_slots(t) ==
    CASE t = 1 -> <<540, 600>>
      [] t > 10 -> <<SessionMinutes * (t - 10), SessionMinutes * (t - 9)>>
      [] OTHER -> <<540>>

\* Step 2: the candidates of an enrollment in preference order (earliest time,
\* then room order); candidate c is a slot and a room.
candidate_count(e) == Len(trainer_slots(ScopeEnrollment(e).trainer)) * Len(RoomOrder)

candidate(e, c) ==
    LET slots == trainer_slots(ScopeEnrollment(e).trainer)
        start == slots[((c - 1) \div Len(RoomOrder)) + 1]
    IN  [day_of_week |-> "monday", start_time |-> start,
         end_time |-> start + SessionMinutes,
         room |-> RoomOrder[((c - 1) % Len(RoomOrder)) + 1],
         course_enrollment |-> e]

\* The conflict rule of the search: same day, overlapping [start, end), and a
\* shared room, trainer or class group.
placement_conflict(a, b) ==
    /\ a.day_of_week = b.day_of_week
    /\ a.start_time < b.end_time /\ a.end_time > b.start_time
    /\ \/ a.room = b.room
       \/ ScopeEnrollment(a.course_enrollment).trainer
            = ScopeEnrollment(b.course_enrollment).trainer
       \/ ScopeEnrollment(a.course_enrollment).class_group
            = ScopeEnrollment(b.course_enrollment).class_group

\* The placements of the partial solution: enrollment k of the run holds its
\* candidate stack[k].
solution(run) == [k \in 1..Len(run.stack) |-> candidate(run.todo[k], run.stack[k])]

\* Step 3: a candidate is accepted if it conflicts with no placement accepted in
\* this run and with no published entry.
accepted(run, es, cand) ==
    LET sol == solution(run)
    IN  /\ \A k \in DOMAIN sol : ~placement_conflict(sol[k], cand)
        /\ \A i \in PublishedIds(es) : ~placement_conflict(es[i], cand)

\* A run of generate_timetable as it starts: nothing placed, the first candidate
\* of the first enrollment to try.
start_run(class_group_ids) ==
    [op |-> "generate_timetable", pc |-> "search",
     todo |-> scope_enrollments(class_group_ids), stack |-> <<>>, next |-> 1,
     backtracked |-> FALSE]

\* Mutant: an exhausted enrollment is skipped instead of backtracked over.
search_step_skipping(run, es) ==
    IF Len(run.stack) = Len(run.todo) THEN [run EXCEPT !.pc = "succeeded"]
    ELSE LET e == run.todo[Len(run.stack) + 1]
         IN  IF run.next > candidate_count(e)
             THEN [run EXCEPT !.pc = "succeeded"]
             ELSE IF accepted(run, es, candidate(e, run.next))
             THEN [run EXCEPT !.stack = Append(run.stack, run.next), !.next = 1]
             ELSE [run EXCEPT !.next = run.next + 1]

\* Steps 3 to 5: one step of the backtracking search.  All enrollments placed:
\* success.  Candidates of the current enrollment exhausted: failure at the
\* root, else back to the previous enrollment's next candidate.  Otherwise the
\* next candidate is accepted or passed over.
search_step(run, es) ==
    IF Len(run.stack) = Len(run.todo) THEN [run EXCEPT !.pc = "succeeded"]
    ELSE LET e == run.todo[Len(run.stack) + 1]
         IN  IF run.next > candidate_count(e)
             THEN IF run.stack = <<>>
                  THEN [run EXCEPT !.pc = "failed"]
                  ELSE [run EXCEPT
                          !.stack = SubSeq(run.stack, 1, Len(run.stack) - 1),
                          !.next = run.stack[Len(run.stack)] + 1,
                          !.backtracked = TRUE]
             ELSE IF accepted(run, es, candidate(e, run.next))
             THEN [run EXCEPT !.stack = Append(run.stack, run.next), !.next = 1]
             ELSE [run EXCEPT !.next = run.next + 1]

\* generate_timetable(): the search run to its end.
RECURSIVE run_search(_, _)
run_search(run, es) ==
    IF run.pc # "search" THEN run ELSE run_search(search_step(run, es), es)

\* get_report(): the counts of the run and the enrollments left unplaced; a
\* failed run has placed nothing and lists every enrollment in scope.
get_report(run) ==
    [total |-> Len(run.todo),
     placed |-> IF run.pc = "succeeded" THEN Len(run.todo) ELSE 0,
     unplaced |-> IF run.pc = "succeeded" THEN 0 ELSE Len(run.todo),
     unplaced_enrollments |-> IF run.pc = "succeeded" THEN <<>> ELSE run.todo]

\* The draft_version minted for the entries of one run.
minted_version(nid) == "g" \o ToString(nid)

\* create_timetable_entries() when it returns: the placements of the solution
\* are stored as drafts of a freshly minted version, except those that fail
\* validation (the first `failures` of them), which are recorded in
\* _failure_entries and skipped.
create_timetable_entries(es, nid, run, failures) ==
    LET sol     == solution(run)
        created == Len(sol) - failures
        row(k)  == [draft_version |-> minted_version(nid), is_draft |-> TRUE,
                    day_of_week |-> sol[k].day_of_week,
                    start_time |-> sol[k].start_time, end_time |-> sol[k].end_time,
                    room |-> sol[k].room,
                    course_enrollment |-> sol[k].course_enrollment]
    IN  [entries |-> [i \in DOMAIN es \cup (nid..(nid + created - 1)) |->
                        IF i \in DOMAIN es THEN es[i] ELSE row(failures + 1 + (i - nid))],
         nextId |-> nid + created,
         created_count |-> created,
         failure_entries |-> SubSeq(run.todo, 1, failures)]

\* The failures generate reports in full (`_failure_entries[:10]`).
DetailsLimit == 10

\* What a call of create_timetable_entries may do: return with no entry failed,
\* with one, with as many as are reported in full or with one more, or raise.
NoTimetable == "No timetable has been generated"

FailureCounts == {0, 1, DetailsLimit, DetailsLimit + 1}

CreateOutcomes(run) ==
    {[raises |-> "", error |-> "", failures |-> n] : n \in FailureCounts \cap 0..Len(run.todo)}
    \cup {[raises |-> "RuntimeError", error |-> "Failed to create entries", failures |-> 0],
          [raises |-> "ValueError", error |-> NoTimetable, failures |-> 0]}

\* The class groups a request may name: those with enrollments, and one (4)
\* without.
ScopeLists == {<<1>>, <<2>>, <<1, 2>>, <<3>>, <<4>>, <<5>>}

\* The tables a run may find: empty, or holding a published or a draft entry.
GenerationTables ==
    {<<>>} \cup { <<[serializer_save(item) EXCEPT !.is_draft = b]>>
                    : item \in Items \ {InvalidItem}, b \in BOOLEAN }

\* One run of the search, a step at a time.
search(p) ==
    /\ AtPc(p, "generate_timetable", "search")
    /\ procs' = [procs EXCEPT ![p] = search_step(procs[p], entries)]
    /\ UNCHANGED <<entries, nextId, prev, resp, schedules>>

InitSearch ==
    /\ entries \in GenerationTables
    /\ nextId = Len(entries) + 1
    /\ prev = entries
    /\ resp = NoResponse
    /\ schedules = <<>>
    /\ procs \in {<<start_run(ids)>> : ids \in ScopeLists}

NextSearch == \E p \in DOMAIN procs : search(p)

SpecSearch == InitSearch /\ [][NextSearch]_vars /\ WF_vars(NextSearch)

\* ---------------------------------------- TimetableGenerationViewSet
\* str(...) of an id.
str(id) == ToString(id)

\* `str(x) if x else None`: a missing value is passed on as None.
str_or_none(id) == IF id = NoId THEN "" ELSE str(id)

\* request.user.id
user_id_of(u) ==
    CASE u.role = "admin" -> 1
      [] u.role = "hod" -> 2
      [] OTHER -> 3

\* The terms a request may name: term 1 exists, term 2 does not.
TermIds == {1, 2}

\* Requests of generate: the validated data and the async query parameter; a
\* request the serializer rejects has valid = FALSE.
GenerateRequests ==
    {[valid |-> TRUE, term_id |-> 1, class_group_ids |-> ids, create_entries |-> c,
      async |-> FALSE] : ids \in ScopeLists, c \in BOOLEAN}
    \cup {[valid |-> TRUE, term_id |-> t, class_group_ids |-> <<1, 2>>, create_entries |-> TRUE,
           async |-> FALSE] : t \in TermIds}
    \cup {[valid |-> TRUE, term_id |-> 1, class_group_ids |-> <<1, 2>>, create_entries |-> c,
           async |-> TRUE] : c \in BOOLEAN}
    \cup {[valid |-> FALSE, term_id |-> NoId, class_group_ids |-> <<>>,
           create_entries |-> TRUE, async |-> a] : a \in BOOLEAN}

\* Mutant: the job is enqueued without the class groups of the request.
delay_kwargs_without_class_groups(req, u) ==
    [op |-> "generate_timetable_async", pc |-> "PENDING", info |-> "",
     term_id |-> str_or_none(req.term_id),
     class_group_ids |-> <<>>,
     create_entries |-> req.create_entries,
     user_id |-> str(user_id_of(u))]

\* generate, async branch: the keyword arguments of generate_timetable_async.delay
\* as the job carries them; a job starts PENDING.
delay_kwargs(req, u) ==
    [op |-> "generate_timetable_async", pc |-> "PENDING", info |-> "",
     term_id |-> str_or_none(req.term_id),
     class_group_ids |-> [k \in DOMAIN req.class_group_ids |-> str(req.class_group_ids[k])],
     create_entries |-> req.create_entries,
     user_id |-> str(user_id_of(u))]

\* The response of generate, with the request it answers and the service calls
\* made for it.
GenerateResponse(u, req, status, data, calls) ==
    Response("generate", u, NoVersion, NoId, status, data)
        @@ [request |-> req, calls |-> calls]

\* generate, `service._failure_entries[:10] if len(...) > 10 else ...`.
failed_entries(failure_entries) ==
    [count |-> Len(failure_entries),
     details |-> IF Len(failure_entries) > DetailsLimit
                 THEN SubSeq(failure_entries, 1, DetailsLimit)
                 ELSE failure_entries,
     has_more |-> Len(failure_entries) > DetailsLimit,
     total |-> Len(failure_entries)]

\* Mutant: entries are created whatever generate_timetable returned.
calls_create_ignoring_success(success, req) == req.create_entries

\* generate, `if success and validated_data.get('create_entries', True)`.
calls_create(success, req) == success /\ req.create_entries

\* Mutant: the recorded failures are left out of the report.
report_after_create_dropping_failures(report, cr) ==
    report @@ [created_count |-> cr.created_count]

\* generate, after create_timetable_entries returned: the report gains
\* created_count and, if failures were recorded, failed_entries.
report_after_create(report, cr) ==
    IF cr.failure_entries # <<>>
    THEN report @@ [created_count |-> cr.created_count,
                    failed_entries |-> failed_entries(cr.failure_entries)]
    ELSE report @@ [created_count |-> cr.created_count]

\* generate, the except clauses around create_timetable_entries.
report_after_raise(report, outcome) ==
    IF outcome.raises = "RuntimeError"
    THEN report @@ [error |-> outcome.error, created_count |-> 0,
                    error_details |-> [message |-> outcome.error]]
    ELSE report @@ [error |-> outcome.error, created_count |-> 0]

\* generate, the response status of the synchronous branch.
response_status(success, report) ==
    IF success THEN 200
    ELSE IF "error" \in DOMAIN report /\ report.error = NoTimetable THEN 400
    ELSE IF "created_count" \notin DOMAIN report \/ report.created_count = 0 THEN 422
    ELSE 207

\* generate, synchronous branch: the search, the report, the creation of the
\* entries if the search succeeded and entries are asked for, the update of the
\* schedules of the requested class groups if entries were created, and the
\* response.
generate_sync(es, nid, scheds, u, req, run, outcome) ==
    LET generated == run.pc = "succeeded"
        creates   == calls_create(generated, req)
        raised    == creates /\ outcome.raises # ""
        cr        == create_timetable_entries(es, nid, run, outcome.failures)
        report1   == IF ~creates THEN get_report(run)
                     ELSE IF raised THEN report_after_raise(get_report(run), outcome)
                     ELSE report_after_create(get_report(run), cr)
        success   == generated /\ ~raised
        created_count == IF success /\ "created_count" \in DOMAIN report1
                         THEN report1.created_count ELSE 0
        updates   == success /\ created_count > 0
        es1       == IF creates /\ ~raised THEN cr.entries ELSE es
        groups    == {req.class_group_ids[k] : k \in DOMAIN req.class_group_ids}
        report2   == IF updates
                     THEN report1 @@ [schedule_updates |->
                                        [succeeded |-> Len(req.class_group_ids), failed |-> 0]]
                     ELSE report1
    IN  [entries |-> es1,
         nextId |-> IF creates /\ ~raised THEN cr.nextId ELSE nid,
         schedules |-> IF updates THEN update_class_group_schedules(es1, scheds, groups)
                       ELSE scheds,
         resp |-> GenerateResponse(u, req, response_status(success, report2),
                                   [success |-> success, report |-> report2],
                                   IF creates
                                   THEN <<"generate_timetable", "get_report",
                                          "create_timetable_entries">>
                                   ELSE <<"generate_timetable", "get_report">>)
                    @@ [generated |-> generated, outcome |-> outcome]]

\* POST generate.  The permission test, the serializer, then the async branch
\* (one job is enqueued, or the broker refuses it) or the synchronous branch (a
\* term that does not exist ends it with 404).
generate(u, req) ==
    /\ Cardinality(DOMAIN entries) < MaxEntries
    /\ Len(procs) < MaxJobs
    /\ prev' = entries
    /\ IF PermissionDenied(u)
       THEN /\ resp' = GenerateResponse(u, req, 403, [detail |-> "Permission denied."], <<>>)
            /\ UNCHANGED <<entries, nextId, schedules, procs>>
       ELSE IF ~req.valid
       THEN /\ resp' = GenerateResponse(u, req, 400, [detail |-> "invalid"], <<>>)
            /\ UNCHANGED <<entries, nextId, schedules, procs>>
       ELSE IF req.async
       THEN /\ \E broker_up \in BOOLEAN :
                 IF broker_up
                 THEN /\ procs' = Append(procs, delay_kwargs(req, u))
                      /\ resp' = GenerateResponse(u, req, 200,
                                      [detail |-> "Timetable generation has been started.",
                                       task_id |-> str(Len(procs) + 1)], <<>>)
                 ELSE /\ procs' = procs
                      /\ resp' = GenerateResponse(u, req, 500,
                                      [detail |-> "Error starting timetable generation",
                                       error |-> "broker"], <<>>)
            /\ UNCHANGED <<entries, nextId, schedules>>
       ELSE IF req.term_id # 1
       THEN /\ resp' = GenerateResponse(u, req, 404,
                            [detail |-> "Referenced object not found",
                             error_type |-> "DoesNotExist"], <<>>)
            /\ UNCHANGED <<entries, nextId, schedules, procs>>
       ELSE \E run \in {run_search(start_run(req.class_group_ids), entries)} :
            \E outcome \in CreateOutcomes(run) :
            \E r \in {generate_sync(entries, nextId, schedules, u, req, run, outcome)} :
                  /\ entries' = r.entries
                  /\ nextId' = r.nextId
                  /\ schedules' = r.schedules
                  /\ resp' = r.resp
                  /\ procs' = procs

InitGenerate ==
    /\ entries \in {es \in GenerationTables : DraftIds(es) = {}}
    /\ nextId = Len(entries) + 1
    /\ prev = entries
    /\ resp = NoResponse
    /\ schedules = <<>>
    /\ procs = <<>>

NextGenerate == \E u \in Users, req \in GenerateRequests : generate(u, req)

SpecGenerate == InitGenerate /\ [][NextGenerate]_vars

\* -------------------------------------------- generate_timetable_async
\* int(...) of an id a job carries as a string.
int(text) == CHOOSE id \in 0..(10 + MaxScope) : str(id) = text

\* The job as the result backend holds it: PENDING until a worker takes it,
\* STARTED while it runs, PROGRESS once it has reported a progress pair, RETRY
\* while it waits to run again, and SUCCESS, FAILURE or REVOKED at its end.
ProgressInfos ==
    {info \in [current : 0..3, total : {0, 3}] : info.current <= info.total}
    \cup {[current |-> 1]}

worker_start(p) ==
    /\ procs[p].op = "generate_timetable_async" /\ procs[p].pc \in {"PENDING", "RETRY"}
    /\ procs' = [procs EXCEPT ![p].pc = "STARTED"]
    /\ UNCHANGED <<entries, nextId, prev, resp, schedules>>

worker_progress(p, info) ==
    /\ procs[p].op = "generate_timetable_async" /\ procs[p].pc \in {"STARTED", "PROGRESS"}
    /\ procs' = [procs EXCEPT ![p].pc = "PROGRESS", ![p].info = info]
    /\ UNCHANGED <<entries, nextId, prev, resp, schedules>>

worker_retry(p) ==
    /\ procs[p].op = "generate_timetable_async" /\ procs[p].pc \in {"STARTED", "PROGRESS"}
    /\ procs' = [procs EXCEPT ![p].pc = "RETRY", ![p].info = ""]
    /\ UNCHANGED <<entries, nextId, prev, resp, schedules>>

revoke(p) ==
    /\ procs[p].op = "generate_timetable_async" /\ procs[p].pc \in {"PENDING", "STARTED", "RETRY"}
    /\ procs' = [procs EXCEPT ![p].pc = "REVOKED", ![p].info = ""]
    /\ UNCHANGED <<entries, nextId, prev, resp, schedules>>

\* The job runs the generation once and, if it succeeded and entries are asked
\* for, creates them; an exception ends the job in FAILURE with the exception
\* as its info, otherwise it ends in SUCCESS with the outcome as its result.
worker_finish(p) ==
    /\ procs[p].op = "generate_timetable_async" /\ procs[p].pc \in {"STARTED", "PROGRESS"}
    /\ \E run \in {run_search(start_run([k \in DOMAIN procs[p].class_group_ids |->
                                              int(procs[p].class_group_ids[k])]), entries)} :
       \E outcome \in CreateOutcomes(run) :
       LET job     == procs[p]
           creates == run.pc = "succeeded" /\ job.create_entries
           cr      == create_timetable_entries(entries, nextId, run, outcome.failures)
       IN  /\ prev' = entries
           /\ IF int(job.term_id) # 1 \/ (creates /\ outcome.raises # "")
              THEN /\ procs' = [procs EXCEPT ![p].pc = "FAILURE",
                                             ![p].info = IF int(job.term_id) # 1
                                                         THEN "" ELSE outcome.error]
                   /\ UNCHANGED <<entries, nextId>>
              ELSE /\ procs' = [procs EXCEPT
                                  ![p].pc = "SUCCESS",
                                  ![p].info = [success |-> run.pc = "succeeded",
                                               report |-> IF creates
                                                          THEN report_after_create(get_report(run), cr)
                                                          ELSE get_report(run)]]
                   /\ entries' = IF creates THEN cr.entries ELSE entries
                   /\ nextId' = IF creates THEN cr.nextId ELSE nextId
           /\ resp' = [op |-> "generate_timetable_async", task_id |-> str(p),
                       status |-> 0, data |-> [state |-> procs'[p].pc]]
    /\ UNCHANGED schedules

\* ------------------------------------------------------------ task_status
\* AsyncResult(task_id).state and .info: an id the backend does not know is
\* PENDING.
TaskIds == {"", "1", "9"}

async_result(task_id) ==
    IF \E p \in DOMAIN procs : procs[p].op = "generate_timetable_async" /\ str(p) = task_id
    THEN LET p == CHOOSE q \in DOMAIN procs : str(q) = task_id
         IN  [state |-> procs[p].pc, info |-> procs[p].info]
    ELSE [state |-> "PENDING", info |-> ""]

\* result.ready()
ready(result) == result.state \in {"SUCCESS", "FAILURE", "REVOKED"}

\* `int((current / total) * 100)`; for the pairs of ProgressInfos the product is
\* the exact one rounded down.
progress_percentage(info) == (info.current * 100) \div info.total

\* The response body of task_status by the state of the job.
task_status_response(result) ==
    IF result.state = "PENDING"
    THEN [state |-> result.state, status |-> "Task is pending execution."]
    ELSE IF result.state = "FAILURE"
    THEN [state |-> result.state, status |-> "Task has failed.",
          error |-> IF result.info # "" THEN result.info ELSE "Unknown error"]
    ELSE IF result.state = "PROGRESS"
    THEN IF {"current", "total"} \subseteq DOMAIN result.info
         THEN [state |-> result.state, status |-> "Task is in progress.",
               progress |-> result.info,
               progress_percentage |-> progress_percentage(result.info)]
         ELSE [state |-> result.state, status |-> "Task is in progress.",
               progress |-> result.info]
    ELSE IF ~ready(result)
    THEN [state |-> result.state, status |-> "Task is complete."]
    ELSE IF result.state = "SUCCESS"
    THEN result.info @@ [state |-> result.state, status |-> "Task is complete."]
    ELSE [state |-> result.state, status |-> "Task is complete.",
          error |-> "Error retrieving task result"]

\* GET task_status.  No task_id: 400.  A progress pair whose total is 0 makes the
\* division raise, which the outer except answers 500.
task_status(task_id) ==
    /\ prev' = entries
    /\ UNCHANGED <<entries, nextId, schedules, procs>>
    /\ LET result == async_result(task_id)
           answer(status, data) ==
               [op |-> "task_status", task_id |-> task_id,
                job |-> result, status |-> status, data |-> data]
       IN  resp' =
             IF task_id = ""
             THEN answer(400, [detail |-> "task_id parameter is required."])
             ELSE IF /\ result.state = "PROGRESS"
                     /\ {"current", "total"} \subseteq DOMAIN result.info
                     /\ result.info.total = 0
             THEN answer(500, [detail |-> "Error checking task status"])
             ELSE answer(200, task_status_response(result))

\* The jobs a worker may find queued: those the async branch of generate
\* enqueues.
QueuedJobs ==
    {delay_kwargs(req, u) : req \in {r \in GenerateRequests : r.valid /\ r.async},
                            u \in {v \in Users : ~PermissionDenied(v)}}

InitJobs ==
    /\ entries \in {es \in GenerationTables : DraftIds(es) = {}}
    /\ nextId = Len(entries) + 1
    /\ prev = entries
    /\ resp = NoResponse
    /\ schedules = <<>>
    /\ procs \in {<<job>> : job \in QueuedJobs}

NextJobs ==
    \/ \E p \in DOMAIN procs : worker_start(p)
    \/ \E p \in DOMAIN procs, info \in ProgressInfos : worker_progress(p, info)
    \/ \E p \in DOMAIN procs : worker_retry(p)
    \/ \E p \in DOMAIN procs : revoke(p)
    \/ \E p \in DOMAIN procs : worker_finish(p)
    \/ \E task_id \in TaskIds : task_status(task_id)

SpecJobs == InitJobs /\ [][NextJobs]_vars

\* ------------------------------------------------------------ properties
OtherPublished(es, v) == PublishedIds(es) \ VersionIds(es, v)

\* C1, as stated: after any publish_draft call exactly one draft_version has
\* entries with is_draft=False.
C1_ExactlyOneActiveAfterPublishDraft ==
    (resp.op = "publish_draft" /\ resp.version # NoVersion) =>
        Cardinality(ActiveVersions(entries)) = 1

\* C1, amended: after a publish_draft call that names a version at most one
\* draft_version has published entries, and exactly one, the named version,
\* when the call succeeded.
C1_AtMostOneActiveAfterPublishDraft ==
    (resp.op = "publish_draft" /\ resp.version # NoVersion) =>
        /\ Cardinality(ActiveVersions(entries)) <= 1
        /\ resp.status = 200 => ActiveVersions(entries) = {resp.version}

\* C1 witness: a publish_draft succeeded while another version was active.
C1_Witness ==
    /\ resp.op = "publish_draft"
    /\ resp.status = 200
    /\ OtherPublished(prev, resp.version) # {}
    /\ ActiveVersions(entries) = {resp.version}

\* C2, as stated: in every reachable state at most one draft_version has an
\* entry with is_draft=False.
C2_AtMostOneActiveVersion == Cardinality(ActiveVersions(entries)) <= 1

\* C3: after a successful publish_draft(V) every entry of V is published, every
\* entry of every other version is draft, no row is added, removed or otherwise
\* changed, and published_count is the number of entries of V.
C3_PublishDraftFlipsExactly ==
    (resp.op = "publish_draft" /\ resp.status = 200) =>
        /\ DOMAIN entries = DOMAIN prev
        /\ \A i \in DOMAIN entries :
              entries[i] = [prev[i] EXCEPT !.is_draft = (prev[i].draft_version # resp.version)]
        /\ resp.data.published_count = Cardinality(VersionIds(prev, resp.version))

\* C3 witness: a successful publish_draft(V) that had to publish a draft row of V
\* and to put a published row of another version back to draft.
C3_Witness ==
    /\ resp.op = "publish_draft"
    /\ resp.status = 200
    /\ \E i \in VersionIds(prev, resp.version) : prev[i].is_draft /\ ~entries[i].is_draft
    /\ \E j \in OtherPublished(prev, resp.version) : entries[j].is_draft

\* C4, as stated: publish_draft, discard_draft or revert_to_draft for a version
\* without entries reports not found and leaves every entry unchanged.
C4_MissingVersionChangesNothing ==
    (/\ resp.op \in {"publish_draft", "discard_draft", "revert_to_draft"}
     /\ resp.version # NoVersion
     /\ resp.status # 403
     /\ VersionIds(prev, resp.version) = {}) =>
        (resp.status = 404 /\ entries = prev)

\* C5, as stated: publish_draft(V) called while other versions have k > 0
\* published entries reports previously_active_count = k and
\* previously_active_versions = the set of those versions.
C5_PreviouslyActiveReported ==
    (/\ resp.op = "publish_draft"
     /\ resp.status = 200
     /\ OtherPublished(prev, resp.version) # {}) =>
        /\ "previously_active_count" \in DOMAIN resp.data
        /\ resp.data.previously_active_count =
              Cardinality(OtherPublished(prev, resp.version))
        /\ resp.data.previously_active_versions =
              {prev[i].draft_version : i \in OtherPublished(prev, resp.version)}

\* The previously_active_count a publish_draft response reports: the key is left
\* out of the response when the count is zero.
ReportedPreviouslyActive(r) ==
    IF "previously_active_count" \in DOMAIN r.data
    THEN r.data.previously_active_count ELSE 0

\* C6: a publish_draft(V) that directly follows a successful publish_draft(V)
\* succeeds, leaves the table as the first call left it with V active, and reports
\* previously_active_count = 0.
C6_PublishDraftIdempotent ==
    (resp.op = "publish_draft" /\ resp.repeat) =>
        /\ resp.status = 200
        /\ entries = prev
        /\ ActiveVersions(entries) = {resp.version}
        /\ \A i \in VersionIds(entries, resp.version) : ~entries[i].is_draft
        /\ ReportedPreviouslyActive(resp) = 0

\* C6 witness: the second of two consecutive publish_draft(V), with a row of
\* another version in the table.
C6_Witness ==
    /\ resp.op = "publish_draft"
    /\ resp.repeat
    /\ resp.status = 200
    /\ \E i \in DOMAIN entries : entries[i].draft_version # resp.version

Buckets(r) ==
    r.data.room_conflicts \cup r.data.trainer_conflicts \cup r.data.class_group_conflicts

\* An entry the conflict check compares with the request: published, on the
\* request's day, and not the entry whose id the request carries.
Compared(es, i, req) ==
    /\ ~es[i].is_draft
    /\ es[i].day_of_week = req.day_of_week
    /\ i # req.id

\* C9: the conflict check reports a compared entry E in the bucket of an axis it
\* shares with the candidate C iff E.start_time < C.end_time and
\* E.end_time > C.start_time; an entry that only touches C at a boundary is in no
\* bucket, and one that shares an instant with C is in the bucket of every axis
\* it shares with C.
C9_HalfOpenOverlap ==
    (resp.op = "conflicts" /\ resp.status = 200) =>
        LET req == resp.request
            cs == req.start_time[1] * 60 + req.start_time[2]
            ce == req.end_time[1] * 60 + req.end_time[2]
            cand == Enrollment[req.course_enrollment]
        IN  \A i \in DOMAIN entries :
              LET E == entries[i]
                  overlap == E.start_time < ce /\ E.end_time > cs
                  touches == E.end_time = cs \/ E.start_time = ce
                  shares == \E t \in 0..1439 :
                                /\ E.start_time <= t /\ t < E.end_time
                                /\ cs <= t /\ t < ce
                  sameRoom == E.room = req.room
                  sameTrainer == Enrollment[E.course_enrollment].trainer = cand.trainer
                  sameGroup ==
                      Enrollment[E.course_enrollment].class_group = cand.class_group
              IN  Compared(entries, i, req) =>
                    /\ sameRoom => (i \in resp.data.room_conflicts <=> overlap)
                    /\ sameTrainer => (i \in resp.data.trainer_conflicts <=> overlap)
                    /\ sameGroup => (i \in resp.data.class_group_conflicts <=> overlap)
                    /\ touches => i \notin Buckets(resp)
                    /\ shares =>
                          /\ sameRoom => i \in resp.data.room_conflicts
                          /\ sameTrainer => i \in resp.data.trainer_conflicts
                          /\ sameGroup => i \in resp.data.class_group_conflicts

\* C9 witness: a check that reported an overlapping entry of the candidate's room
\* and left out a published entry of that room and day that ends when the
\* candidate starts.
C9_Witness ==
    /\ resp.op = "conflicts"
    /\ resp.status = 200
    /\ resp.data.room_conflicts # {}
    /\ \E j \in DOMAIN entries :
          /\ Compared(entries, j, resp.request)
          /\ entries[j].room = resp.request.room
          /\ entries[j].end_time = resp.request.start_time[1] * 60 + resp.request.start_time[2]
          /\ j \notin Buckets(resp)

\* C10: no bucket of a conflict-check result holds a draft entry, an entry of
\* another day than the candidate's, or the entry whose id the request carries.
C10_BucketsOnlyCompared ==
    (resp.op = "conflicts" /\ resp.status = 200) =>
        \A i \in Buckets(resp) :
            /\ i \in DOMAIN entries
            /\ ~entries[i].is_draft
            /\ entries[i].day_of_week = resp.request.day_of_week
            /\ i # resp.request.id

\* C10 witness: a check that reported a conflict while the table held a draft
\* entry in the candidate's room whose time overlaps the candidate's.
C10_Witness ==
    /\ resp.op = "conflicts"
    /\ resp.status = 200
    /\ resp.data.has_conflicts
    /\ \E j \in DOMAIN entries :
          /\ entries[j].is_draft
          /\ entries[j].day_of_week = resp.request.day_of_week
          /\ entries[j].room = resp.request.room
          /\ entries[j].start_time < resp.request.end_time[1] * 60 + resp.request.end_time[2]
          /\ entries[j].end_time > resp.request.start_time[1] * 60 + resp.request.start_time[2]
          /\ j \notin Buckets(resp)

\* C11: in every conflict-check result has_conflicts is true iff at least one of
\* the three buckets is non-empty, and each bucket is decided by its own axis
\* alone: an overlapping compared entry is in the room bucket iff it has the
\* candidate's room, in the trainer bucket iff it has the candidate's trainer, in
\* the class-group bucket iff it has the candidate's class group, whatever other
\* bucket it is in.
C11_HasConflictsIffSomeBucket ==
    (resp.op = "conflicts" /\ resp.status = 200) =>
        LET req == resp.request
            cand == Enrollment[req.course_enrollment]
        IN  /\ resp.data.has_conflicts <=> Buckets(resp) # {}
            /\ \A i \in DOMAIN entries :
                  (/\ Compared(entries, i, req)
                   /\ time_overlap(entries[i], strptime(req.start_time),
                                   strptime(req.end_time))) =>
                    /\ i \in resp.data.room_conflicts <=> entries[i].room = req.room
                    /\ i \in resp.data.trainer_conflicts <=>
                          Enrollment[entries[i].course_enrollment].trainer = cand.trainer
                    /\ i \in resp.data.class_group_conflicts <=>
                          class_group_of(entries[i]) = cand.class_group

\* C11 witness: a result with the flag set in which one entry is reported in the
\* room, the trainer and the class-group bucket.
C11_Witness ==
    /\ resp.op = "conflicts"
    /\ resp.status = 200
    /\ resp.data.has_conflicts
    /\ \E i \in DOMAIN entries :
          /\ i \in resp.data.room_conflicts
          /\ i \in resp.data.trainer_conflicts
          /\ i \in resp.data.class_group_conflicts

\* C12, as stated: a conflict check whose candidate has no room returns a normal
\* result with an empty room bucket.
C12_AbsentRoomSkipsAxis ==
    (resp.op = "conflicts" /\ "room" \notin DOMAIN resp.request) =>
        /\ resp.status = 200
        /\ resp.data.room_conflicts = {}

\* C13, as stated: a conflict check whose times parse but whose start_time is not
\* strictly before its end_time is not answered with a conflict result.
C13_MalformedRangeRejected ==
    (/\ resp.op = "conflicts"
     /\ ConflictKeys \subseteq DOMAIN resp.request
     /\ strptime_ok(resp.request.start_time)
     /\ strptime_ok(resp.request.end_time)
     /\ strptime(resp.request.start_time) >= strptime(resp.request.end_time)) =>
        resp.status # 200

\* C14: the conflicts action and validate_timetable_entry leave the Timetable
\* table as it was before the request, whatever the request and whether it is
\* answered 200, 400 or 500.
C14_ConflictCheckPureRead ==
    (resp.op \in {"conflicts", "validate_timetable_entry"}) =>
        /\ entries = prev
        /\ nextId = MaxEntries + 1

\* C14 witness: a failed conflict check on a table that holds a published entry.
C14_Witness ==
    /\ resp.op = "conflicts"
    /\ resp.status = 400
    /\ PublishedIds(entries) # {}
    /\ entries = prev

\* Two entries that the non-overlap rule forbids to be published together: same
\* day, overlapping [start, end), and a shared room, trainer or class group.
Clash(a, b) ==
    /\ a.day_of_week = b.day_of_week
    /\ a.start_time < b.end_time /\ a.end_time > b.start_time
    /\ \/ a.room = b.room
       \/ Enrollment[a.course_enrollment].trainer = Enrollment[b.course_enrollment].trainer
       \/ class_group_of(a) = class_group_of(b)

\* C15, as stated: in every reachable state no two published entries on the same
\* day with overlapping time ranges share a room, a trainer or a class group.
C15_NoPublishedOverlap ==
    \A i, j \in PublishedIds(entries) : i # j => ~Clash(entries[i], entries[j])

\* The entries whose is_draft flag the last request changed, and their class
\* groups.
FlippedIds == {i \in DOMAIN prev \cap DOMAIN entries : prev[i].is_draft # entries[i].is_draft}

FlippedGroups == {class_group_of(entries[i]) : i \in FlippedIds}

\* C16, as stated: after a successful publish_draft(V) the call has rebuilt the
\* ClassGroupSchedule of every class group of V's entries and of every class
\* group of an entry it reverted to draft.
C16_PublishDraftRebuildsChangedGroups ==
    (resp.op = "publish_draft" /\ resp.status = 200) =>
        \A g \in {class_group_of(entries[i]) : i \in VersionIds(entries, resp.version)}
                  \cup FlippedGroups :
            g \in resp.rebuilt

\* The stored schedule of a class group; a group without a ClassGroupSchedule row
\* has no scheduled entry.
StoredSchedule(g) == IF g \in DOMAIN schedules THEN schedules[g] ELSE {}

\* C17, as stated: after a successful per-entry publish, publish_draft or
\* revert_to_draft, the ClassGroupSchedule of every class group with an entry whose
\* publication state changed equals the schedule derived from that group's
\* currently published entries.
C17_SchedulesMatchPublished ==
    (resp.op \in {"publish", "publish_draft", "revert_to_draft"} /\ resp.status = 200) =>
        \A g \in FlippedGroups : StoredSchedule(g) = ScheduleRows(entries, g)

\* C20, as stated: no request changes the day_of_week, start_time, end_time or room
\* of an entry that was published when the request arrived.
C20_PublishedPlacementFrozen ==
    \A i \in DOMAIN prev \cap DOMAIN entries :
        ~prev[i].is_draft =>
            /\ entries[i].day_of_week = prev[i].day_of_week
            /\ entries[i].start_time = prev[i].start_time
            /\ entries[i].end_time = prev[i].end_time
            /\ entries[i].room = prev[i].room

\* Every request in flight has been answered.
AllDone == procs # <<>> /\ \A p \in DOMAIN procs : procs[p].pc = "done"

\* Two publish_draft calls for different versions that both had entries when the
\* calls arrived.
TwoPublishDrafts ==
    /\ DOMAIN procs = {1, 2}
    /\ procs[1].op = "publish_draft" /\ procs[2].op = "publish_draft"
    /\ procs[1].version # procs[2].version
    /\ VersionIds(prev, procs[1].version) # {}
    /\ VersionIds(prev, procs[2].version) # {}

\* Version v is published in full and every entry of every other version is
\* draft.
PublishedInFull(es, v) ==
    /\ VersionIds(es, v) # {}
    /\ PublishedIds(es) = VersionIds(es, v)

\* C18: once two concurrent publish_draft calls for versions V and W, both with
\* entries, have finished, whatever the interleaving of their statements, exactly
\* one of V and W is published in full and every entry of every other version is
\* draft.
C18_ConcurrentPublishDraftOneWinner ==
    (TwoPublishDrafts /\ AllDone) =>
        /\ \/ PublishedInFull(entries, procs[1].version)
           \/ PublishedInFull(entries, procs[2].version)
        /\ ~(/\ PublishedInFull(entries, procs[1].version)
              /\ PublishedInFull(entries, procs[2].version))

\* C18 witness: both calls have finished and succeeded, the second call's version
\* is the published one, and the first call collected no class group because the
\* second call's service ran between the first call's service and its query.
C18_Witness ==
    /\ TwoPublishDrafts
    /\ AllDone
    /\ procs[1].status = 200
    /\ procs[2].status = 200
    /\ procs[1].class_groups = {}
    /\ PublishedInFull(entries, procs[2].version)

\* The table a handler leaves when it runs alone on table es.
run_alone(op, es, v) ==
    CASE op = "publish_draft" -> publish_draft_writes(es, v).entries
      [] op = "discard_draft" -> discard_draft_timetable(es, v).entries
      [] op = "revert_to_draft" -> UpdateIsDraft(es, revert_to_draft_rows(es, v), TRUE)

\* The table the requests in flight leave when they run one after the other in
\* the given order.
RECURSIVE run_in_order(_, _)
run_in_order(order, es) ==
    IF order = <<>> THEN es
    ELSE run_in_order(Tail(order),
                      run_alone(procs[Head(order)].op, es, procs[Head(order)].version))

SerialOrders ==
    {o \in [DOMAIN procs -> DOMAIN procs] :
        \A p, q \in DOMAIN procs : p # q => o[p] # o[q]}

SerialTables == {run_in_order(o, prev) : o \in SerialOrders}

\* Requests in flight that are all for one version, a discard_draft among them.
SameVersionRequests ==
    /\ \A p \in DOMAIN procs : procs[p].version = procs[1].version
    /\ \E p \in DOMAIN procs : procs[p].op = "discard_draft"

\* C19, as stated: when concurrent publish_draft, discard_draft and revert_to_draft
\* calls for one version have all finished, the table is one that some serial
\* order of the calls leaves, the version is not partially published, and no
\* entry was deleted between the two writes of the publish_draft call.
C19_SameVersionSerialized ==
    (procs # <<>> /\ SameVersionRequests /\ AllDone) =>
        /\ entries \in SerialTables
        /\ \/ VersionIds(entries, procs[1].version) \subseteq PublishedIds(entries)
           \/ VersionIds(entries, procs[1].version) \subseteq DraftIds(entries)
        /\ \A p \in DOMAIN procs : ~procs[p].mid_flip

\* C21, as stated: a bulk_create request answered 400 persists no entry.
C21_InvalidBatchPersistsNothing ==
    (resp.op = "bulk_create" /\ resp.status = 400) => entries = prev

\* The five timetable actions that change entries.
WritingActions ==
    {"revert_to_draft", "bulk_create", "publish", "publish_draft", "discard_draft"}

\* C29, as stated: a request to one of the five writing actions by a user who is
\* not staff and whose role is neither hod nor dp_academics is rejected and
\* leaves every entry as it was.
C29_UnprivilegedCannotWrite ==
    (resp.op \in WritingActions /\ PermissionDenied(resp.user)) =>
        /\ resp.status >= 400
        /\ entries = prev

\* C30, as stated: validate_timetable_entry with all required fields present is
\* answered normally, with valid=false or valid=true.
C30_ValidateAnswersValidity ==
    (/\ resp.op = "validate_timetable_entry"
     /\ ConflictKeys \subseteq DOMAIN resp.request) =>
        resp.status = 200

RestrictedRoles == {"trainee", "trainer", "hod", "dp_academics"}

\* C28: no draft entry is among the entries that list, retrieve or my_schedule
\* return to a trainee, trainer, hod or dp_academics user, nor among the bookings
\* that room availability returns to any user.
C28_DraftsNotExposed ==
    /\ (/\ resp.op \in {"list", "retrieve", "my_schedule"}
        /\ resp.user.role \in RestrictedRoles) =>
            \A i \in resp.data.ids : ~entries[i].is_draft
    /\ (resp.op = "availability") =>
            \A i \in resp.data.ids : ~entries[i].is_draft

\* C28 witness: a hod's list that returns an entry while the table holds a draft
\* entry too.
C28_Witness ==
    /\ resp.op = "list"
    /\ resp.user.role = "hod"
    /\ resp.data.ids # {}
    /\ DraftIds(entries) # {}

\* C22: in a synchronous run create_timetable_entries is called only after
\* generate_timetable returned True and only when create_entries is requested;
\* when generate_timetable returns False the request persists no entry, updates
\* no schedule, and answers success=false with a status other than 200 (and not
\* a server error) that still carries the report.
ServiceCalled(r) == r.op = "generate" /\ r.calls # <<>>

C22_CreateOnlyAfterSuccess ==
    [][ServiceCalled(resp') =>
          /\ "create_timetable_entries" \in {resp'.calls[k] : k \in DOMAIN resp'.calls} =>
                /\ resp'.calls = <<"generate_timetable", "get_report",
                                   "create_timetable_entries">>
                /\ resp'.generated
                /\ resp'.request.create_entries
          /\ ~resp'.generated =>
                /\ entries' = entries /\ nextId' = nextId /\ schedules' = schedules
                /\ resp'.data.success = FALSE
                /\ resp'.status # 200 /\ resp'.status < 500
                /\ resp'.data.report.unplaced > 0
                /\ resp'.data.report.unplaced_enrollments # <<>>]_vars

C22_Witness ==
    /\ ServiceCalled(resp) /\ ~resp.generated /\ resp.request.create_entries
    /\ resp.status = 422 /\ resp.data.report.unplaced = 2

\* C23: when create_timetable_entries returns with n > 0 failures and at least
\* one entry created, the response is success=true with created_count and
\* failed_entries.total = n, the details cut to the first 10 and has_more true
\* iff n > 10; the run is failed (success=false, created_count=0, no schedule
\* update) only when create_timetable_entries raises.
CreateCalled(r) ==
    ServiceCalled(r) /\ r.calls[Len(r.calls)] = "create_timetable_entries"

C23_FailuresReturned ==
    CreateCalled(resp) =>
        LET report == resp.data.report
            n      == resp.outcome.failures
        IN  /\ (/\ resp.outcome.raises = "" /\ n > 0 /\ report.total - n >= 1) =>
                  /\ resp.data.success /\ resp.status = 200
                  /\ report.created_count = report.total - n
                  /\ "failed_entries" \in DOMAIN report
                  /\ report.failed_entries.total = n
                  /\ Len(report.failed_entries.details) = IF n > 10 THEN 10 ELSE n
                  /\ \A k \in DOMAIN report.failed_entries.details :
                        report.failed_entries.details[k]
                            = scope_enrollments(resp.request.class_group_ids)[k]
                  /\ report.failed_entries.has_more = (n > 10)
            /\ (~resp.data.success) = (resp.outcome.raises # "")
            /\ resp.outcome.raises # "" =>
                  /\ report.created_count = 0
                  /\ "schedule_updates" \notin DOMAIN report
                  /\ entries = prev

C23_Witness ==
    /\ CreateCalled(resp) /\ resp.outcome.raises = ""
    /\ resp.outcome.failures = 11 /\ resp.data.report.created_count = 1
    /\ resp.data.report.failed_entries.has_more

\* C24: generate_timetable always terminates; it returns True only when every
\* enrollment in scope is placed with no overlap among the placements and with
\* the published entries, and otherwise returns False with the unplaced
\* enrollments reported.
SearchDone == \A p \in DOMAIN procs : procs[p].pc # "search"

AllOrNothing ==
    \A p \in DOMAIN procs :
        LET run == procs[p]
            sol == solution(run)
        IN  /\ run.pc = "succeeded" =>
                  /\ Len(sol) = Len(run.todo)
                  /\ \A k \in DOMAIN sol : sol[k].course_enrollment = run.todo[k]
                  /\ \A j, k \in DOMAIN sol : j # k => ~placement_conflict(sol[j], sol[k])
                  /\ \A k \in DOMAIN sol, i \in PublishedIds(entries) :
                        ~placement_conflict(sol[k], entries[i])
                  /\ get_report(run).unplaced_enrollments = <<>>
            /\ run.pc = "failed" =>
                  /\ run.todo # <<>>
                  /\ get_report(run).unplaced_enrollments = run.todo
                  /\ get_report(run).placed = 0

C24_TerminatesAllOrNothing == <>SearchDone /\ []AllOrNothing

C24_Witness ==
    \E p \in DOMAIN procs :
        /\ procs[p].op = "generate_timetable" /\ procs[p].pc = "succeeded"
        /\ procs[p].backtracked /\ Len(procs[p].todo) = 3
        /\ DraftIds(entries) # {}

\* C25: a permitted, valid generate request with async=true changes no entry and
\* no schedule and calls no service; it either enqueues exactly one job that
\* carries the term, the class groups, create_entries and the user's id, and
\* answers with that job's task_id, or (enqueueing failed) enqueues nothing and
\* answers an error without a task_id.
AsyncAccepted(r) ==
    r.op = "generate" /\ r.request.valid /\ r.request.async /\ ~PermissionDenied(r.user)

C25_AsyncEnqueuesOneJob ==
    [][AsyncAccepted(resp') =>
          /\ entries' = entries /\ nextId' = nextId /\ schedules' = schedules
          /\ resp'.calls = <<>>
          /\ IF resp'.status = 200
             THEN /\ Len(procs') = Len(procs) + 1
                  /\ \A p \in DOMAIN procs : procs'[p] = procs[p]
                  /\ resp'.data.task_id = ToString(Len(procs'))
                  /\ LET job == procs'[Len(procs')]
                     IN  /\ job.op = "generate_timetable_async" /\ job.pc = "PENDING"
                         /\ job.term_id = ToString(resp'.request.term_id)
                         /\ Len(job.class_group_ids) = Len(resp'.request.class_group_ids)
                         /\ \A k \in DOMAIN job.class_group_ids :
                               job.class_group_ids[k]
                                   = ToString(resp'.request.class_group_ids[k])
                         /\ job.create_entries = resp'.request.create_entries
                         /\ job.user_id = ToString(user_id_of(resp'.user))
             ELSE /\ procs' = procs
                  /\ resp'.status >= 400
                  /\ "task_id" \notin DOMAIN resp'.data]_vars

C25_Witness ==
    /\ AsyncAccepted(resp) /\ resp.status = 200 /\ resp.user.role = "hod"
    /\ resp.data.task_id = "1" /\ Len(procs) = 1 /\ procs[1].user_id = "2"
    /\ procs[1].class_group_ids = <<"1", "2">>

\* C26: task_status reports a PENDING job as pending, a PROGRESS job as in
\* progress with its progress info, a FAILURE job as failed with an error, and
\* answers 'Task is complete.' only for a job in SUCCESS, with its result.
C26_CompleteOnlyWhenSucceeded ==
    (resp.op = "task_status" /\ resp.status = 200) =>
        /\ resp.job.state = "PENDING" => resp.data.status = "Task is pending execution."
        /\ resp.job.state = "PROGRESS" =>
              /\ resp.data.status = "Task is in progress."
              /\ resp.data.progress = resp.job.info
        /\ resp.job.state = "FAILURE" =>
              /\ resp.data.status = "Task has failed."
              /\ resp.data.error # ""
        /\ resp.data.status = "Task is complete." =>
              /\ resp.job.state = "SUCCESS"
              /\ resp.data.success = resp.job.info.success
              /\ resp.data.report = resp.job.info.report

\* C27: for a PROGRESS job whose progress pair has 0 <= current <= total,
\* task_status answers 200 with a progress_percentage in 0..100, total = 0
\* included.
C27_PercentageForEveryPair ==
    (/\ resp.op = "task_status" /\ resp.task_id # ""
     /\ resp.job.state = "PROGRESS"
     /\ {"current", "total"} \subseteq DOMAIN resp.job.info
     /\ 0 <= resp.job.info.current /\ resp.job.info.current <= resp.job.info.total) =>
        /\ resp.status = 200
        /\ resp.data.progress_percentage \in 0..100
====
